---- MODULE Spec2Model ----
(***************************************************************************)
(* Verification model of the prescription application:                     *)
(*   - the DoctorPatientConnection table (src/modelss.py) as it is written *)
(*     through the model's save path and the admin change form             *)
(*     (src/core/admin.py);                                                *)
(*   - PrescriptionItem.save, the derived end date (src/modelss.py).       *)
(* Dates are proleptic day ordinals counted from 2024-01-01, which is what *)
(* datetime.date + timedelta computes on.                                  *)
(***************************************************************************)
EXTENDS Integers, FiniteSets, Sequences, TLC

VARIABLES connections, nextId, pc, req, result, last, item, itemOp, saves,
          users, patient_profiles, doctor_profiles, diagnoses, prescriptions,
          pitems, notifications, medications, dbOp

vars ==
    <<connections, nextId, pc, req, result, last, item, itemOp, saves,
      users, patient_profiles, doctor_profiles, diagnoses, prescriptions,
      pitems, notifications, medications, dbOp>>

connVars == <<connections, nextId, pc, req, result, last>>

itemVars == <<item, itemOp, saves>>

\* The tables around the connection table: users and their profiles, the
\* clinical record chain, notifications and medications.
dbVars ==
    <<users, patient_profiles, doctor_profiles, diagnoses, prescriptions,
      pitems, notifications, medications, dbOp>>

(***************************************************************************)
(* Bounds of the model.                                                    *)
(***************************************************************************)
MaxTime == 2

MaxStart == 1

MaxDuration == 7

MaxSaves == 2

\* Rows a table of the record chain holds at most, and connections ever
\* inserted, in the database model.
MaxRows == 1

(***************************************************************************)
(* Values.                                                                 *)
(***************************************************************************)
\* null=True: the NULL of a nullable date, datetime or integer column.
Null == -1

\* null=True on duration_unit: the NULL of the nullable CharField.
NullUnit == "NULL"

Patients == {"p1", "p2"}

Doctors == {"d1"}

\* Two concurrent requests (web workers) writing the connection table.
Procs == {"w1", "w2"}

STATUS_CHOICES ==
    {"pending_approval_by_doctor", "approved", "rejected_by_doctor",
     "terminated_by_patient", "terminated_by_doctor"}

\* default= of DoctorPatientConnection.status
DefaultStatus == "pending_approval_by_doctor"

\* What a status form field may be handed: the choices and one value that is
\* not among them.
StatusInputs == STATUS_CHOICES \cup {"reopened"}

\* A datetime typed into the admin form's response_date, or left empty.
ResponseInputs == {Null} \cup (1..MaxTime)

NoRequest == <<"none", "none">>

(***************************************************************************)
(* DoctorPatientConnection                                                 *)
(***************************************************************************)
ConnectionsOf(p, d) == {c \in connections : c.patient = p /\ c.doctor = d}

\* Meta.unique_together = ('patient', 'doctor'): a row with this pair exists.
\* The key is the pair alone; status is not part of it.
PairExistsNever(p, d) == FALSE

PairExists(p, d) == ConnectionsOf(p, d) # {}

\* unique_together as Model.validate_unique, the existence check made before
\* the INSERT.
validate_unique(p, d) == PairExists(p, d)

\* unique_together as the table's UNIQUE constraint, enforced by the database
\* at the INSERT itself.
UniqueConstraintAbsent(p, d) == FALSE

UniqueConstraint(p, d) == PairExists(p, d)

\* A new DoctorPatientConnection(patient=p, doctor=d): the field defaults.
NewConnection(p, d) ==
    [id |-> nextId, patient |-> p, doctor |-> d,
     status |-> DefaultStatus, response_date |-> Null]

\* `last` when the latest step was not a change of a connection.
NoOp == [op |-> "none", result |-> "none"]

\* Creating a connection for (p, d), first half: the existence check of the
\* request handled by worker pr.
CheckCreate(pr, p, d) ==
    /\ pc[pr] \in {"idle", "done"}
    /\ req' = [req EXCEPT ![pr] = <<p, d>>]
    /\ IF validate_unique(p, d)
         THEN /\ pc' = [pc EXCEPT ![pr] = "done"]
              /\ result' = [result EXCEPT ![pr] = "ValidationError"]
         ELSE /\ pc' = [pc EXCEPT ![pr] = "checked"]
              /\ result' = [result EXCEPT ![pr] = "none"]
    /\ last' = NoOp
    /\ UNCHANGED <<connections, nextId>>

\* Creating a connection, second half: the INSERT, which the UNIQUE constraint
\* rejects with IntegrityError.
InsertCreate(pr) ==
    /\ pc[pr] = "checked"
    /\ pc' = [pc EXCEPT ![pr] = "done"]
    /\ IF UniqueConstraint(req[pr][1], req[pr][2])
         THEN /\ result' = [result EXCEPT ![pr] = "IntegrityError"]
              /\ UNCHANGED <<connections, nextId>>
         ELSE /\ result' = [result EXCEPT ![pr] = "ok"]
              /\ connections' =
                     connections \cup {NewConnection(req[pr][1], req[pr][2])}
              /\ nextId' = nextId + 1
    /\ last' = NoOp
    /\ UNCHANGED req

\* The validation of a written status: it is one of STATUS_CHOICES. Nothing
\* compares it with the row's current status.
ChangeValid(c, st) == st \in STATUS_CHOICES

\* DoctorPatientConnectionAdmin's change form, and any other caller that
\* assigns the fields and calls save(): status and response_date are plain
\* editable fields and are written as given.
ChangeConnection(c, st, rd) ==
    /\ IF ChangeValid(c, st)
         THEN /\ connections' =
                     (connections \ {c}) \cup
                     {[c EXCEPT !.status = st, !.response_date = rd]}
              /\ last' = [op |-> "change", result |-> "ok"]
         ELSE /\ UNCHANGED connections
              /\ last' = [op |-> "change", result |-> "ValidationError"]
    /\ UNCHANGED <<nextId, pc, req, result>>

(***************************************************************************)
(* PrescriptionItem                                                        *)
(***************************************************************************)
DURATION_UNIT_CHOICES == {"days", "weeks", "months", "indefinite"}

\* Days before each month of 2024, the year the day ordinals start in.
DaysBeforeMonth == <<0, 31, 60, 91, 121, 152, 182, 213, 244, 274, 305, 335>>

\* datetime.date(2024, m, d) as a day ordinal (2024-01-01 is day 0).
Date2024(m, d) == DaysBeforeMonth[m] + (d - 1)

StartInputs == 0..MaxStart

DurationInputs == {Null} \cup (0..MaxDuration)

UnitInputs == {NullUnit} \cup DURATION_UNIT_CHOICES

\* An end date set by hand, or the field left empty.
EndInputs == {Null} \cup (0..MaxStart)

\* Python truth of an optional integer: None and 0 are false.
IntTruth(v) == v # Null /\ v # 0

\* Python truth of an optional date: only None is false.
DateTruth(d) == d # Null

\* Python truth of an optional string: None and '' are false.
StrTruth(u) == u # NullUnit /\ u # ""

\* The condition of save(): start_date and duration_value and duration_unit
\* and not end_date.
DerivesAlways(it) ==
    /\ DateTruth(it.start_date)
    /\ IntTruth(it.duration_value)
    /\ StrTruth(it.duration_unit)

Derives(it) ==
    /\ DateTruth(it.start_date)
    /\ IntTruth(it.duration_value)
    /\ StrTruth(it.duration_unit)
    /\ ~DateTruth(it.end_date)

\* timedelta(days=n), timedelta(weeks=n) and timedelta(days=n * 30), in days.
DurationDays(unit, n) ==
    CASE unit = "days" -> n
      [] unit = "weeks" -> 7 * n
      [] unit = "months" -> n * 30

\* The end_date of the instance after the body of save(): an if / elif chain
\* over days, weeks and months with no else branch.
EndDateOnSaveElse(it) ==
    IF Derives(it)
      THEN it.start_date +
           (CASE it.duration_unit = "days" -> it.duration_value
              [] it.duration_unit = "weeks" -> 7 * it.duration_value
              [] OTHER -> it.duration_value * 30)
      ELSE it.end_date

EndDateOnSave(it) ==
    IF Derives(it) /\ it.duration_unit \in {"days", "weeks", "months"}
      THEN it.start_date + DurationDays(it.duration_unit, it.duration_value)
      ELSE it.end_date

\* PrescriptionItem.save
Save ==
    /\ item' = [item EXCEPT !.end_date = EndDateOnSave(item)]
    /\ itemOp' = "save"
    /\ saves' = IF saves < MaxSaves THEN saves + 1 ELSE saves

\* Assignments to the fields of the instance between saves.
SetStartDate(d) ==
    /\ item' = [item EXCEPT !.start_date = d]
    /\ itemOp' = "set"
    /\ UNCHANGED saves

SetDurationValue(v) ==
    /\ item' = [item EXCEPT !.duration_value = v]
    /\ itemOp' = "set"
    /\ UNCHANGED saves

SetDurationUnit(u) ==
    /\ item' = [item EXCEPT !.duration_unit = u]
    /\ itemOp' = "set"
    /\ UNCHANGED saves

SetEndDate(e) ==
    /\ item' = [item EXCEPT !.end_date = e]
    /\ itemOp' = "set"
    /\ UNCHANGED saves

(***************************************************************************)
(* The database: User, PatientProfile, DoctorProfile, Diagnosis,           *)
(* Prescription, PrescriptionItem, Notification, Medication, and the       *)
(* on_delete rule of every foreign key. A profile's key is its user's key  *)
(* (primary_key=True); a connection's patient and doctor are profile keys. *)
(***************************************************************************)
ROLE_CHOICES == {"patient", "doctor", "admin"}

\* default= of User.role
DefaultRole == "patient"

\* The accounts (unique emails) that may register.
UserIds == {"p1", "d1"}

\* The medications (unique names) that may be entered.
MedicationNames == {"m1", "m2"}

RowIds == 1..MaxRows

Ids(rows) == {r.id : r \in rows}

\* The AutoField key of a new row of `rows`.
FreeId(rows) == CHOOSE i \in RowIds \ Ids(rows) :
                    \A j \in RowIds \ Ids(rows) : i <= j

\* `dbOp` when the latest step deleted nothing.
NoDbOp == [op |-> "none", arg |-> "none", result |-> "none", tables |-> {}]

\* CustomUserCreationForm.save (SignUpView): a User with the chosen role. No
\* profile is created here.
Register(u, r) ==
    /\ u \notin DOMAIN users
    /\ r \in ROLE_CHOICES
    /\ users' = [x \in DOMAIN users \cup {u} |-> IF x = u THEN r ELSE users[x]]
    /\ dbOp' = NoDbOp
    /\ UNCHANGED <<patient_profiles, doctor_profiles, diagnoses,
                   prescriptions, pitems, notifications, medications>>

\* CustomUserAdmin's change form: role is among its fieldsets.
ChangeRole(u, r) ==
    /\ u \in DOMAIN users
    /\ r \in ROLE_CHOICES
    /\ users' = [users EXCEPT ![u] = r]
    /\ dbOp' = NoDbOp
    /\ UNCHANGED <<patient_profiles, doctor_profiles, diagnoses,
                   prescriptions, pitems, notifications, medications>>

\* What the creation of a profile requires of the user's role: nothing. The
\* role is looked at only by CustomUserAdmin.get_inlines, to choose which
\* inline the user's page shows.
PatientProfileAllowed(u) == TRUE

DoctorProfileAllowed(u) == TRUE

\* PatientProfileAdmin's add form: a profile for any user that has none.
AddPatientProfile(u) ==
    /\ u \in DOMAIN users
    /\ u \notin patient_profiles
    /\ PatientProfileAllowed(u)
    /\ patient_profiles' = patient_profiles \cup {u}
    /\ dbOp' = NoDbOp
    /\ UNCHANGED <<users, doctor_profiles, diagnoses, prescriptions, pitems,
                   notifications, medications>>

\* DoctorProfileAdmin's add form.
AddDoctorProfile(u) ==
    /\ u \in DOMAIN users
    /\ u \notin doctor_profiles
    /\ DoctorProfileAllowed(u)
    /\ doctor_profiles' = doctor_profiles \cup {u}
    /\ dbOp' = NoDbOp
    /\ UNCHANGED <<users, patient_profiles, diagnoses, prescriptions, pitems,
                   notifications, medications>>

\* A DoctorPatientConnection between two existing profiles.
AddConnection(p, d) ==
    /\ p \in patient_profiles
    /\ d \in doctor_profiles
    /\ ~UniqueConstraint(p, d)
    /\ nextId <= MaxRows
    /\ connections' = connections \cup {NewConnection(p, d)}
    /\ nextId' = nextId + 1
    /\ dbOp' = NoDbOp
    /\ UNCHANGED <<users, patient_profiles, doctor_profiles, diagnoses,
                   prescriptions, pitems, notifications, medications>>

AddDiagnosis(c) ==
    /\ c \in Ids(connections)
    /\ RowIds \ Ids(diagnoses) # {}
    /\ diagnoses' = diagnoses \cup {[id |-> FreeId(diagnoses), connection |-> c]}
    /\ dbOp' = NoDbOp
    /\ UNCHANGED <<connections, nextId, users, patient_profiles,
                   doctor_profiles, prescriptions, pitems, notifications,
                   medications>>

AddPrescription(g) ==
    /\ g \in Ids(diagnoses)
    /\ RowIds \ Ids(prescriptions) # {}
    /\ prescriptions' =
           prescriptions \cup {[id |-> FreeId(prescriptions), diagnosis |-> g]}
    /\ dbOp' = NoDbOp
    /\ UNCHANGED <<connections, nextId, users, patient_profiles,
                   doctor_profiles, diagnoses, pitems, notifications,
                   medications>>

AddItem(r, m) ==
    /\ r \in Ids(prescriptions)
    /\ m \in medications
    /\ RowIds \ Ids(pitems) # {}
    /\ pitems' = pitems \cup
                     {[id |-> FreeId(pitems), prescription |-> r,
                       medication |-> m]}
    /\ dbOp' = NoDbOp
    /\ UNCHANGED <<connections, nextId, users, patient_profiles,
                   doctor_profiles, diagnoses, prescriptions, notifications,
                   medications>>

\* The references a new Notification is given: none, or one of the three.
NotificationRefs ==
    {<<Null, Null, Null>>}
    \cup {<<i, Null, Null>> : i \in RowIds}
    \cup {<<Null, g, Null>> : g \in RowIds}
    \cup {<<Null, Null, c>> : c \in RowIds}

\* A Notification of user u; each of the three references is optional. No
\* table refers to notifications, and their keys are left out.
AddNotification(u, i, g, c) ==
    /\ u \in DOMAIN users
    /\ i \in {Null} \cup Ids(pitems)
    /\ g \in {Null} \cup Ids(diagnoses)
    /\ c \in {Null} \cup Ids(connections)
    /\ Cardinality(notifications) < MaxRows
    /\ notifications' = notifications \cup
           {[user |-> u, prescription_item |-> i, diagnosis |-> g,
             connection_request_ref |-> c]}
    /\ dbOp' = NoDbOp
    /\ UNCHANGED <<connections, nextId, users, patient_profiles,
                   doctor_profiles, diagnoses, prescriptions, pitems,
                   medications>>

AddMedication(m) ==
    /\ m \notin medications
    /\ medications' = medications \cup {m}
    /\ dbOp' = NoDbOp
    /\ UNCHANGED <<connections, nextId, users, patient_profiles,
                   doctor_profiles, diagnoses, prescriptions, pitems,
                   notifications>>

\* PrescriptionItem.medication, on_delete=PROTECT: the items that keep the
\* medication m from being deleted.
ProtectedByNone(m) == {}

ProtectedBy(m) == {i \in pitems : i.medication = m}

\* Medication.delete()
DeleteMedication(m) ==
    /\ m \in medications
    /\ IF ProtectedBy(m) # {}
         THEN /\ dbOp' = [op |-> "delete_medication", arg |-> m,
                          result |-> "ProtectedError", tables |-> {}]
              /\ UNCHANGED medications
         ELSE /\ dbOp' = [op |-> "delete_medication", arg |-> m,
                          result |-> "ok", tables |-> {"medication"}]
              /\ medications' = medications \ {m}
    /\ UNCHANGED <<connections, nextId, users, patient_profiles,
                   doctor_profiles, diagnoses, prescriptions, pitems,
                   notifications>>

\* on_delete=CASCADE of DoctorPatientConnection.patient and .doctor.
CascadeConnections(pps, dps) ==
    {c \in connections : c.patient \in pps \/ c.doctor \in dps}

\* on_delete=CASCADE of Diagnosis.connection.
CascadeDiagnoses(cs) == {g \in diagnoses : g.connection \in Ids(cs)}

\* on_delete=CASCADE of Prescription.diagnosis.
CascadePrescriptions(gs) == {r \in prescriptions : r.diagnosis \in Ids(gs)}

\* on_delete=CASCADE of PrescriptionItem.prescription.
CascadeItems(rs) == {i \in pitems : i.prescription \in Ids(rs)}

\* on_delete=CASCADE of Notification.user, .prescription_item, .diagnosis and
\* .connection_request_ref.
CascadeNotificationsOfUser(us, is, gs, cs) ==
    {n \in notifications : n.user \in us}

CascadeNotifications(us, is, gs, cs) ==
    {n \in notifications :
        \/ n.user \in us
        \/ n.prescription_item \in Ids(is)
        \/ n.diagnosis \in Ids(gs)
        \/ n.connection_request_ref \in Ids(cs)}

\* The names of the tables among `pairs` (name, rows) whose rows are not empty.
Touched(pairs) == {p[1] : p \in {q \in pairs : q[2] # {}}}

\* User.delete(): the user and everything the CASCADE rules collect from it.
DeleteUser(u) ==
    /\ u \in DOMAIN users
    /\ LET pps == patient_profiles \cap {u}
           dps == doctor_profiles \cap {u}
           cs == CascadeConnections(pps, dps)
           gs == CascadeDiagnoses(cs)
           rs == CascadePrescriptions(gs)
           is == CascadeItems(rs)
           ns == CascadeNotifications({u}, is, gs, cs)
       IN  /\ users' = [x \in DOMAIN users \ {u} |-> users[x]]
           /\ patient_profiles' = patient_profiles \ pps
           /\ doctor_profiles' = doctor_profiles \ dps
           /\ connections' = connections \ cs
           /\ diagnoses' = diagnoses \ gs
           /\ prescriptions' = prescriptions \ rs
           /\ pitems' = pitems \ is
           /\ notifications' = notifications \ ns
           /\ dbOp' = [op |-> "delete_user", arg |-> u, result |-> "ok",
                       tables |-> Touched({<<"profile", pps \cup dps>>,
                                           <<"connection", cs>>,
                                           <<"diagnosis", gs>>,
                                           <<"prescription", rs>>,
                                           <<"item", is>>,
                                           <<"notification", ns>>})]
    /\ UNCHANGED <<nextId, medications>>

InitDb ==
    /\ users = <<>>
    /\ patient_profiles = {}
    /\ doctor_profiles = {}
    /\ diagnoses = {}
    /\ prescriptions = {}
    /\ pitems = {}
    /\ notifications = {}
    /\ medications = {}
    /\ dbOp = NoDbOp

InitConn ==
    /\ connections = {}
    /\ nextId = 1
    /\ pc = [pr \in Procs |-> "idle"]
    /\ req = [pr \in Procs |-> NoRequest]
    /\ result = [pr \in Procs |-> "none"]
    /\ last = NoOp

InitItem ==
    /\ item = [start_date |-> 0, duration_value |-> Null,
               duration_unit |-> NullUnit, end_date |-> Null]
    /\ itemOp = "new"
    /\ saves = 0

Init == InitConn /\ InitItem /\ InitDb

Next ==
    \/ \E pr \in Procs, p \in Patients, d \in Doctors :
           CheckCreate(pr, p, d) /\ UNCHANGED <<itemVars, dbVars>>
    \/ \E pr \in Procs : InsertCreate(pr) /\ UNCHANGED <<itemVars, dbVars>>
    \/ \E c \in connections, st \in StatusInputs, rd \in ResponseInputs :
           ChangeConnection(c, st, rd) /\ UNCHANGED <<itemVars, dbVars>>

Spec == Init /\ [][Next]_vars

NextItem ==
    \/ \E d \in StartInputs : SetStartDate(d) /\ UNCHANGED <<connVars, dbVars>>
    \/ \E v \in DurationInputs : SetDurationValue(v) /\ UNCHANGED <<connVars, dbVars>>
    \/ \E u \in UnitInputs : SetDurationUnit(u) /\ UNCHANGED <<connVars, dbVars>>
    \/ \E e \in EndInputs : SetEndDate(e) /\ UNCHANGED <<connVars, dbVars>>
    \/ Save /\ UNCHANGED <<connVars, dbVars>>

SpecItem == Init /\ [][NextItem]_vars

dbOther == <<pc, req, result, last, item, itemOp, saves>>

\* The clinical record chain and the deletions. The rules of deletion do not
\* read the role: the users here register with the default one, and p1 is
\* given the patient profile and d1 the doctor profile.
NextDb ==
    \/ \E u \in UserIds :
           Register(u, DefaultRole) /\ UNCHANGED <<connections, nextId, dbOther>>
    \/ \E u \in UserIds \cap Patients :
           AddPatientProfile(u) /\ UNCHANGED <<connections, nextId, dbOther>>
    \/ \E u \in UserIds \cap Doctors :
           AddDoctorProfile(u) /\ UNCHANGED <<connections, nextId, dbOther>>
    \/ \E p \in Patients, d \in Doctors : AddConnection(p, d) /\ UNCHANGED dbOther
    \/ \E c \in RowIds : AddDiagnosis(c) /\ UNCHANGED dbOther
    \/ \E g \in RowIds : AddPrescription(g) /\ UNCHANGED dbOther
    \/ \E r \in RowIds, m \in MedicationNames : AddItem(r, m) /\ UNCHANGED dbOther
    \/ \E u \in UserIds, ref \in NotificationRefs :
           AddNotification(u, ref[1], ref[2], ref[3]) /\ UNCHANGED dbOther
    \/ \E m \in MedicationNames : AddMedication(m) /\ UNCHANGED dbOther
    \/ \E m \in MedicationNames : DeleteMedication(m) /\ UNCHANGED dbOther
    \/ \E u \in UserIds : DeleteUser(u) /\ UNCHANGED dbOther

SpecDb == Init /\ [][NextDb]_vars

\* Registration, the role and the profiles of the users.
NextReg ==
    \/ \E u \in UserIds, r \in ROLE_CHOICES :
           Register(u, r) /\ UNCHANGED <<connections, nextId, dbOther>>
    \/ \E u \in UserIds, r \in ROLE_CHOICES :
           ChangeRole(u, r) /\ UNCHANGED <<connections, nextId, dbOther>>
    \/ \E u \in UserIds :
           AddPatientProfile(u) /\ UNCHANGED <<connections, nextId, dbOther>>
    \/ \E u \in UserIds :
           AddDoctorProfile(u) /\ UNCHANGED <<connections, nextId, dbOther>>
    \/ \E u \in UserIds : DeleteUser(u) /\ UNCHANGED dbOther

SpecReg == Init /\ [][NextReg]_vars

(***************************************************************************)
(* Claims about the connection table.                                      *)
(***************************************************************************)
ConflictError == {"ValidationError", "IntegrityError"}

TerminalStatuses ==
    {"rejected_by_doctor", "terminated_by_patient", "terminated_by_doctor"}

\* The request of worker pr for its pair ends in this step.
CreateEnds(pr) ==
    /\ pc'[pr] = "done"
    /\ pc[pr] # "done" \/ req'[pr] # req[pr] \/ result'[pr] # result[pr]

OnePerPair ==
    \A p \in Patients, d \in Doctors : Cardinality(ConnectionsOf(p, d)) <= 1

C1_CreateStep ==
    \A pr \in Procs :
        CreateEnds(pr) =>
            LET p == req'[pr][1]
                d == req'[pr][2]
            IN  IF ConnectionsOf(p, d) # {}
                  THEN /\ result'[pr] \in ConflictError
                       /\ connections' = connections
                  ELSE /\ result'[pr] = "ok"
                       /\ \E c \in connections' \ connections :
                              /\ connections' = connections \cup {c}
                              /\ c.patient = p /\ c.doctor = d
                              /\ c.status = "pending_approval_by_doctor"

\* C1: at most one Connection exists per (patient, doctor) pair; a request
\* that ends while no Connection exists for its pair creates exactly one, in
\* pending_approval_by_doctor, and a request that ends while one exists
\* fails with a conflict error and creates nothing.
C1_OnePerPair == []OnePerPair /\ [][C1_CreateStep]_vars

\* C1 witness: one request created the pair's Connection and a later request
\* for the same pair was refused by the existence check.
C1_Witness ==
    \E a \in Procs, b \in Procs :
        /\ a # b /\ pc[a] = "done" /\ pc[b] = "done" /\ req[a] = req[b]
        /\ result[a] = "ok" /\ result[b] = "ValidationError"
        /\ Cardinality(ConnectionsOf(req[a][1], req[a][2])) = 1

\* C2: two requests for the same pair whose existence checks both passed
\* (they overlapped) end with exactly one of them having created the
\* Connection, and no state holds two Connections for a pair.
C2_ConcurrentCreate ==
    /\ OnePerPair
    /\ \A a \in Procs, b \in Procs :
           ( /\ a # b /\ pc[a] = "done" /\ pc[b] = "done" /\ req[a] = req[b]
             /\ result[a] \in {"ok", "IntegrityError"}
             /\ result[b] \in {"ok", "IntegrityError"} )
           => (result[a] = "ok") # (result[b] = "ok")

\* C2 witness: both requests passed the existence check, one inserted, and
\* the other's INSERT was rejected by the UNIQUE constraint.
C2_Witness ==
    \E a \in Procs, b \in Procs :
        /\ a # b /\ pc[a] = "done" /\ pc[b] = "done" /\ req[a] = req[b]
        /\ result[a] = "ok" /\ result[b] = "IntegrityError"
        /\ Cardinality(ConnectionsOf(req[a][1], req[a][2])) = 1

\* A step that saved a change of the status of the Connection c to c2.
StatusWritten(c, c2) ==
    /\ last'.op = "change" /\ last'.result = "ok"
    /\ c2.id = c.id /\ c2.status # c.status

\* C3 (as claimed): a status is set to approved or rejected_by_doctor only on
\* a Connection that is in pending_approval_by_doctor; on any other status
\* the write fails and nothing is saved.
C3_RespondOnlyFromPending ==
    [][\A c \in connections, c2 \in connections' :
           (StatusWritten(c, c2)
            /\ c2.status \in {"approved", "rejected_by_doctor"})
           => c.status = "pending_approval_by_doctor"]_vars

\* C4 (as claimed): a status is set to terminated_by_patient or
\* terminated_by_doctor only on a Connection that is in approved, hence at
\* most once per Connection.
C4_TerminateOnlyFromApproved ==
    [][\A c \in connections, c2 \in connections' :
           (StatusWritten(c, c2)
            /\ c2.status \in {"terminated_by_patient", "terminated_by_doctor"})
           => c.status = "approved"]_vars

\* C5 (as claimed): a Connection that has left pending_approval_by_doctor
\* never returns to it, and a Connection in rejected_by_doctor,
\* terminated_by_patient or terminated_by_doctor never changes status.
C5_NoReopening ==
    [][\A c \in connections, c2 \in connections' :
           c2.id = c.id =>
               /\ c.status # "pending_approval_by_doctor"
                      => c2.status # "pending_approval_by_doctor"
               /\ c.status \in TerminalStatuses => c2.status = c.status]_vars

\* C6 (as claimed): a request for a pair whose Connection is rejected or
\* terminated creates a new Connection in pending_approval_by_doctor and
\* leaves the old record as it is.
C6_ReRequestCreates ==
    [][\A pr \in Procs :
           ( /\ CreateEnds(pr)
             /\ \E old \in ConnectionsOf(req'[pr][1], req'[pr][2]) :
                    old.status \in TerminalStatuses )
           => /\ result'[pr] = "ok"
              /\ connections \subseteq connections'
              /\ \E c \in connections' \ connections :
                     /\ c.patient = req'[pr][1] /\ c.doctor = req'[pr][2]
                     /\ c.status = "pending_approval_by_doctor"]_vars

\* C7 (as claimed): a Connection's response timestamp is unset exactly when
\* its status is pending_approval_by_doctor.
C7_ResponseDateIffResponded ==
    \A c \in connections :
        (c.response_date = Null) <=> (c.status = "pending_approval_by_doctor")

(***************************************************************************)
(* Claims about PrescriptionItem.save.                                     *)
(***************************************************************************)
\* C8 (as claimed): a save of an item with no end date, a duration value and
\* a unit of days, weeks or months sets the end date to the start date plus
\* value, 7 x value or 30 x value days; 2024-01-01 plus 7 days is 2024-01-08.
C8_DerivedEndDate ==
    [][(/\ itemOp' = "save"
        /\ item.end_date = Null
        /\ item.duration_value # Null
        /\ item.duration_unit \in {"days", "weeks", "months"})
       => /\ item'.end_date =
                 item.start_date +
                 (CASE item.duration_unit = "days" -> item.duration_value
                    [] item.duration_unit = "weeks" -> 7 * item.duration_value
                    [] item.duration_unit = "months" ->
                           30 * item.duration_value)
          /\ ( /\ item.start_date = Date2024(1, 1)
               /\ item.duration_value = 7
               /\ item.duration_unit = "days" )
             => item'.end_date = Date2024(1, 8)]_vars

\* C9 (as claimed): a save with duration value 0, unit days and no end date
\* sets the end date to the start date.
C9_ZeroDuration ==
    [][(/\ itemOp' = "save"
        /\ item.end_date = Null
        /\ item.duration_value = 0
        /\ item.duration_unit = "days")
       => item'.end_date = item.start_date]_vars

\* C10: a save of an item whose end date is set leaves the end date as it
\* is, whatever the start date, duration value and duration unit are by then.
C10_EndDateKept ==
    [][(itemOp' = "save" /\ item.end_date # Null)
       => item'.end_date = item.end_date]_vars

\* C10 witness: after a second save the item holds an end date that is not
\* the one its present start date and duration would derive.
C10_Witness ==
    /\ itemOp = "save"
    /\ saves >= 2
    /\ item.end_date # Null
    /\ item.duration_value # Null /\ item.duration_value > 0
    /\ item.duration_unit \in {"days", "weeks", "months"}
    /\ item.end_date #
           item.start_date + DurationDays(item.duration_unit, item.duration_value)

\* C11: a save of an item with no end date leaves the end date unset when
\* the duration unit is indefinite, whatever the duration value, and when the
\* duration value or the duration unit is absent.
C11_OpenEnded ==
    [][(/\ itemOp' = "save"
        /\ item.end_date = Null
        /\ \/ item.duration_unit = "indefinite"
           \/ item.duration_value = Null
           \/ item.duration_unit = NullUnit)
       => item'.end_date = Null]_vars

\* C11 witness: an item with unit indefinite and a duration value of at least
\* one has been saved and has no end date.
C11_Witness ==
    /\ itemOp = "save"
    /\ item.duration_unit = "indefinite"
    /\ item.duration_value # Null /\ item.duration_value > 0
    /\ item.end_date = Null

(***************************************************************************)
(* Claims about deletion and about roles and profiles.                     *)
(***************************************************************************)
\* Every PrescriptionItem in `is` refers to a Medication in `ms`.
ItemsHaveMedication(is, ms) == \A i \in is : i.medication \in ms

C12_DeleteStep ==
    LET m == dbOp'.arg
    IN  (dbOp'.op = "delete_medication" /\ m \in medications) =>
            IF \E i \in pitems : i.medication = m
              THEN /\ dbOp'.result = "ProtectedError"
                   /\ medications' = medications
                   /\ pitems' = pitems
              ELSE /\ dbOp'.result = "ok"
                   /\ medications' = medications \ {m}
                   /\ pitems' = pitems

\* C12: the deletion of a Medication that a PrescriptionItem refers to fails
\* (ProtectedError, the referential integrity error) and removes nothing, the
\* deletion of one that no item refers to removes it, and every
\* PrescriptionItem refers to an existing Medication in every state.
C12_ProtectedMedication ==
    [](ItemsHaveMedication(pitems, medications)) /\ [][C12_DeleteStep]_vars

\* C12 witness: the deletion of a Medication in use has just been refused,
\* and the Medication and the item that refers to it are in place.
C12_Witness ==
    /\ dbOp.op = "delete_medication"
    /\ dbOp.result = "ProtectedError"
    /\ dbOp.arg \in medications
    /\ \E i \in pitems : i.medication = dbOp.arg

\* No row of the given tables refers to a row that is not in them.
NoDanglingReference(us, pps, dps, cs, gs, rs, is, ns, ms) ==
    /\ pps \subseteq us /\ dps \subseteq us
    /\ \A c \in cs : c.patient \in pps /\ c.doctor \in dps
    /\ \A g \in gs : g.connection \in Ids(cs)
    /\ \A r \in rs : r.diagnosis \in Ids(gs)
    /\ \A i \in is : i.prescription \in Ids(rs) /\ i.medication \in ms
    /\ \A n \in ns :
           /\ n.user \in us
           /\ n.prescription_item \in {Null} \cup Ids(is)
           /\ n.diagnosis \in {Null} \cup Ids(gs)
           /\ n.connection_request_ref \in {Null} \cup Ids(cs)

C13_DeleteStep ==
    LET u == dbOp'.arg
        ucs == {c \in connections : c.patient = u \/ c.doctor = u}
        ugs == {g \in diagnoses : g.connection \in Ids(ucs)}
        urs == {r \in prescriptions : r.diagnosis \in Ids(ugs)}
        uis == {i \in pitems : i.prescription \in Ids(urs)}
        uns == {n \in notifications :
                   \/ n.user = u
                   \/ n.connection_request_ref \in Ids(ucs)
                   \/ n.diagnosis \in Ids(ugs)
                   \/ n.prescription_item \in Ids(uis)}
    IN  (dbOp'.op = "delete_user" /\ u \in DOMAIN users) =>
            /\ DOMAIN users' = DOMAIN users \ {u}
            /\ u \notin patient_profiles' /\ u \notin doctor_profiles'
            /\ connections' \cap ucs = {}
            /\ diagnoses' \cap ugs = {}
            /\ prescriptions' \cap urs = {}
            /\ pitems' \cap uis = {}
            /\ notifications' \cap uns = {}
            /\ medications' = medications
            /\ NoDanglingReference(DOMAIN users', patient_profiles',
                   doctor_profiles', connections', diagnoses', prescriptions',
                   pitems', notifications', medications')

\* C13: the deletion of a user removes the user, its profile, the profile's
\* connections, the diagnoses, prescriptions, items and notifications
\* reachable from those connections and the user's own notifications; no row
\* left refers to a removed row, and no Medication is removed.
C13_CascadeDelete == [][C13_DeleteStep]_vars

\* C13 witness: a user has just been deleted and the deletion removed rows
\* of every table of the chain, while another user, its profile and a
\* Medication are still there.
C13_Witness ==
    /\ dbOp.op = "delete_user"
    /\ dbOp.tables = {"profile", "connection", "diagnosis", "prescription",
                      "item", "notification"}
    /\ patient_profiles \cup doctor_profiles # {}
    /\ medications # {}

\* C14 (as claimed): no user whose role is patient has a DoctorProfile and no
\* user whose role is doctor has a PatientProfile.
C14_ProfileMatchesRole ==
    \A u \in DOMAIN users :
        /\ users[u] = "patient" => u \notin doctor_profiles
        /\ users[u] = "doctor" => u \notin patient_profiles

====
